---- MODULE Spec2Model ----
(***************************************************************************)
(* Model of RunBefExecutor (lib/bef_executor_driver/bef_executor_driver.cc) *)
(* The driver is one sequential function; pc is its position.  The host    *)
(* execution engine (HostContext, Function::Execute, AsyncValue, BEFFile)   *)
(* is a collaborator: its worker threads are the actions ResolveSlot and    *)
(* SideWork, interleaved freely with the driver's steps.                    *)
(***************************************************************************)
EXTENDS FiniteSets, Integers, Sequences, TLC

\* ---------------------------------------------------------------- bounds
MaxFuncs == 2          \* functions declared by the program
MaxLibs == 1           \* entries of run_config.shared_libs
MaxLive == 2           \* cap on the live async values besides the result slots
MaxRc == 2             \* cap on the live reference-counted object counter

\* ---------------------------------------------------------------- inputs
FnNames == <<"a", "b", "c", "d">>
\* run_config.functions
Requests == { <<>>, <<"b", "a">>, <<"a", "a">>, <<"zz">>, <<"a", "zz">> }
ArgLists == { <<>>, <<"i32">> }
ResultLists == { <<>>, <<"i32">> }
ErrorMessages == { "div by zero" }
\* HostAllocatorType, the values of run_config.host_allocator_type
AllocatorTypes == { "kMalloc", "kTestFixedSizeMalloc", "kProfiledMalloc",
                    "kLeakCheckMalloc" }
\* The strategies a full run is started with; the function loop on its own
\* (InitPrint) is entered with each of AllocatorTypes.
RunAllocatorTypes == { "kMalloc", "kLeakCheckMalloc" }

\* The functions a file may declare at index i.  The result types of a
\* function the driver skips are never looked at, so they are left empty.
FunctionAt(i) ==
  { f \in [ name : {"", FnNames[i]}, argument_types : ArgLists,
            result_types : ResultLists ] :
      (f.argument_types # <<>> \/ f.name = "") => f.result_types = <<>> }

Programs ==
  UNION { { p \in [1..n -> UNION { FunctionAt(i) : i \in 1..n }] :
              \A i \in 1..n : p[i] \in FunctionAt(i) } : n \in 0..MaxFuncs }

\* Result type lists of the result line study: every run of at most
\* MaxResults consecutive types of PrintTypes, taken cyclically.
MaxResults == 2
PrintTypes == << "i1", "i32", "i64", "f32", "f64", "tensor" >>
PrintResultLists ==
  { [i \in 1..n |-> PrintTypes[((s + i - 2) % Len(PrintTypes)) + 1]] :
      s \in 1..Len(PrintTypes), n \in 1..MaxResults }

\* A size_t that was declared and never assigned.
Uninit == 0 - 1

VARIABLES
  functions,          \* run_config.functions, the requested names
  tracking,           \* AsyncValue::AsyncValueAllocationTrackingEnabled()
  host_allocator_type, \* run_config.host_allocator_type
  pc,                 \* position of the driver in RunBefExecutor
  lib_idx,            \* shared libraries loaded so far
  bef,                \* the BEFFile: "unset" | "null" | "open" | "released"
  program,            \* the functions the input file declares
  function_list,      \* indices into bef, in run order
  idx,                \* position of the loop in function_list
  before_num_values,  \* Uninit or the baseline sample
  after_num_values,   \* Uninit or the last post-run sample
  results,            \* the driver's result slots of the current call
  pending,            \* engine work not reachable from the result slots
  canceled,           \* HostContext is in the canceled state
  num_values,         \* AsyncValue::GetNumAsyncValueInstances()
  num_rc,             \* GetNumReferenceCountedObjects()
  host,               \* core_rt: "none" | "live" | "destroyed"
  guard,              \* async_value_guard: "unarmed" | "armed" | "passed" | "failed"
  out,                \* tfrt::outs(), a sequence of lines
  errs,               \* llvm::errs(), a sequence of lines
  exit_status,        \* "none" | 0 | 1 | "abort"
  verify_result,      \* "none" | TRUE (matched) | FALSE
  trace,              \* driver steps taken, <<step, list position>>
  samples,            \* per Dispatch: the counters before it and after Release
  short_circuited,    \* some Execute ran on a canceled engine
  read_unresolved,    \* some result slot was read while unresolved
  restart_cleared     \* some Restart found the host canceled

vars == << functions, tracking, host_allocator_type, pc, lib_idx, bef, program, function_list, idx,
           before_num_values, after_num_values, results, pending, canceled,
           num_values, num_rc, host, guard, out, errs, exit_status,
           verify_result, trace, samples, short_circuited, read_unresolved, restart_cleared >>

config == << functions, tracking, host_allocator_type >>
engine == << pending, canceled, num_values, num_rc >>
scope == << bef, host, guard, num_values, num_rc >>
history == << samples, short_circuited, read_unresolved, restart_cleared >>

Init ==
  /\ functions \in Requests
  /\ tracking \in BOOLEAN
  /\ host_allocator_type \in RunAllocatorTypes
  /\ pc = "open_file"
  /\ lib_idx = 0
  /\ bef = "unset"
  /\ program = <<>>
  /\ function_list = <<>>
  /\ idx = 1
  /\ before_num_values = Uninit
  /\ after_num_values = Uninit
  /\ results = <<>>
  /\ pending = 0
  /\ canceled = FALSE
  /\ num_values \in 0..1
  /\ num_rc \in 0..1
  /\ host = "none"
  /\ guard = "unarmed"
  /\ out = <<>>
  /\ errs = <<>>
  /\ exit_status = "none"
  /\ verify_result = "none"
  /\ trace = <<>>
  /\ samples = <<>>
  /\ short_circuited = FALSE
  /\ read_unresolved = FALSE
  /\ restart_cleared = FALSE

\* ------------------------------------------------------------- helpers
Unresolved == [state |-> "unresolved", text |-> ""]

IsResolved(slot) == slot.state # "unresolved"

\* Text of a resolved value of a declared type, as operator<< prints it.
ValueTexts(type) ==
  CASE type = "i1"  -> {"0", "1"}
    [] type = "i32" -> {"3"}
    [] type = "i64" -> {"7"}
    [] type = "f32" -> {"1.5"}
    [] type = "f64" -> {"2.5"}
    [] OTHER        -> {"opaque"}

\* A failed assert ends the process.
AssertFails ==
  /\ pc' = "aborted"
  /\ exit_status' = "abort"

\* Variant: the guard's asserts are evaluated before the program and the
\* host are released.
GuardedReturn_M(code, file) ==
  /\ bef' = IF file = "open" THEN "released" ELSE file
  /\ host' = IF host = "live" THEN "destroyed" ELSE host
  /\ num_values' = IF host = "live" THEN num_values - 1 ELSE num_values
  /\ num_rc' = IF host = "live" THEN num_rc - 1 ELSE num_rc
  /\ IF num_values = 0 /\ num_rc = 0
       THEN /\ guard' = "passed"
            /\ pc' = "done"
            /\ exit_status' = code
       ELSE /\ guard' = "failed"
            /\ AssertFails

\* `return code` after async_value_guard was declared: the locals are
\* destroyed in reverse order of declaration, so the program (bef) and the
\* host (core_rt) are released first and the guard's two asserts are
\* evaluated on the counters they leave behind.
GuardedReturn(code, file) ==
  LET values == IF host = "live" THEN num_values - 1 ELSE num_values
      objects == IF host = "live" THEN num_rc - 1 ELSE num_rc
  IN /\ bef' = IF file = "open" THEN "released" ELSE file
     /\ host' = IF host = "live" THEN "destroyed" ELSE host
     /\ num_values' = values
     /\ num_rc' = objects
     /\ IF values = 0 /\ objects = 0
          THEN /\ guard' = "passed"
               /\ pc' = "done"
               /\ exit_status' = code
          ELSE /\ guard' = "failed"
               /\ AssertFails

\* `return code`: with the guard armed its asserts run on the way out.
Return(code, file) ==
  IF guard = "armed"
    THEN GuardedReturn(code, file)
    ELSE /\ pc' = "done"
         /\ exit_status' = code
         /\ bef' = file
         /\ UNCHANGED << host, guard, num_values, num_rc >>

\* source_mgr_handler.verify(): the verifier runs, its verdict is the
\* value returned.
Verify(matched, file) ==
  /\ verify_result' = matched
  /\ trace' = Append(trace, <<"Verify", 0>>)
  /\ Return(IF matched THEN 0 ELSE 1, file)

\* ------------------------------------------------ engine (collaborators)
\* BEFFile::GetFunction(name): the function of that name, 0 when absent.
GetFunction(name) ==
  IF \E i \in 1..Len(program) : program[i].name = name
    THEN CHOOSE i \in 1..Len(program) :
           /\ program[i].name = name
           /\ \A j \in 1..(i - 1) : program[j].name # name
    ELSE 0

\* BEFFile::GetFunctionList: every function of the file, in file order.
GetFunctionList == [i \in 1..Len(program) |-> i]

\* Function::Execute: fills the result slots and returns at once.  On a
\* canceled host every result is the cancel error and no work is started.
Execute(fn) ==
  /\ results' = [i \in 1..Len(fn.result_types) |->
                   IF canceled THEN [state |-> "error", text |-> "canceled"]
                               ELSE Unresolved]
  /\ pending' = IF canceled THEN pending ELSE pending + 1
  /\ num_values' = num_values + Len(fn.result_types)
  /\ short_circuited' = (short_circuited \/ canceled)

\* HostContext::Await(results) returns once every slot is resolved.
AwaitReturns(slots) == \A i \in 1..Len(slots) : IsResolved(slots[i])

\* HostContext::Quiesce() returns once the work queue is empty.
QuiesceReturns == pending = 0

\* HostContext::Restart() clears the cancel async value.
Restart == canceled' = FALSE

\* A worker thread resolves result slot i to a value or to an error.
ResolveSlot(i) ==
  /\ i \in 1..Len(results)
  /\ results[i].state = "unresolved"
  /\ \E r \in { [state |-> "value", text |-> t] :
                  t \in IF canceled THEN {}
                        ELSE ValueTexts(program[function_list[idx]].result_types[i]) }
           \cup { [state |-> "error", text |-> m] : m \in ErrorMessages } :
       results' = [results EXCEPT ![i] = r]
  /\ UNCHANGED << config, host, guard, pc, lib_idx, bef, program, function_list, idx,
                  before_num_values, after_num_values, engine, out, errs,
                  exit_status, verify_result, trace, history >>

\* A worker thread finishes work that no result slot depends on; the kernel
\* may leak or over-release an async value, may leak a reference-counted
\* object and may cancel the host.
SideWork ==
  /\ pending > 0
  /\ pending' = pending - 1
  /\ \E delta \in {-1, 0, 1}, objects \in {0, 1}, c \in BOOLEAN :
       /\ (delta = 0 \/ objects = 0)
       /\ num_values + delta >= Len(results)
       /\ num_values + delta <= Len(results) + MaxLive
       /\ num_rc + objects <= MaxRc
       /\ num_values' = num_values + delta
       /\ num_rc' = num_rc + objects
       /\ canceled' = (canceled \/ c)
  /\ UNCHANGED << config, host, guard, pc, lib_idx, bef, program, function_list, idx,
                  before_num_values, after_num_values, results, out, errs,
                  exit_status, verify_result, trace, history >>

\* ------------------------------------------------------------ the driver
CurrentFn == program[function_list[idx]]

Step(name) == trace' = Append(trace, <<name, idx>>)

\* mlir::openInputFile, then the assert that no reference-counted object
\* is alive yet.
OpenInputFile ==
  /\ pc = "open_file"
  /\ \E ok \in BOOLEAN :
       IF ~ok
         THEN /\ errs' = Append(errs, <<"cannot open input file">>)
              /\ Return(1, bef)
         ELSE /\ IF num_rc = 0
                   THEN /\ pc' = "create_allocator"
                        /\ UNCHANGED exit_status
                   ELSE AssertFails
              /\ UNCHANGED << errs, scope >>
  /\ UNCHANGED << config, lib_idx, program, function_list, idx,
                  before_num_values, after_num_values, results, pending,
                  canceled, out, verify_result, trace, history >>

\* The line the allocator switch writes to tfrt::outs() for a strategy.
AllocatorLine(type) ==
  CASE type = "kMalloc" -> "Choosing malloc.\n"
    [] type = "kTestFixedSizeMalloc" -> "Choosing fixed size malloc.\n"
    [] type = "kProfiledMalloc" ->
         "Choosing profiled allocator based on malloc.\n"
    [] type = "kLeakCheckMalloc" -> "Choosing memory leak check allocator.\n"

\* switch (run_config.host_allocator_type): the allocator is created and
\* its line is written and flushed.
CreateHostAllocator ==
  /\ pc = "create_allocator"
  /\ out' = Append(out, <<AllocatorLine(host_allocator_type)>>)
  /\ pc' = "create_work_queue"
  /\ UNCHANGED << config, lib_idx, scope, program, function_list, idx,
                  before_num_values, after_num_values, results, pending,
                  canceled, errs, exit_status, verify_result, trace,
                  history >>

\* CreateWorkQueue(run_config.work_queue_type), then the assert that no
\* async value is alive yet and the declaration of async_value_guard.
CreateWorkQueue ==
  /\ pc = "create_work_queue"
  /\ \E ok \in BOOLEAN :
       IF ~ok
         THEN /\ errs' = Append(errs, <<"couldn't create work queue type">>)
              /\ Return(1, bef)
              /\ UNCHANGED out
         ELSE /\ out' = Append(out, <<"Choosing work queue.">>)
              /\ IF num_values = 0
                   THEN /\ pc' = "create_core_rt"
                        /\ guard' = "armed"
                        /\ UNCHANGED exit_status
                   ELSE /\ AssertFails
                        /\ UNCHANGED guard
              /\ UNCHANGED << errs, bef, host, num_values, num_rc >>
  /\ UNCHANGED << config, lib_idx, program, function_list, idx,
                  before_num_values, after_num_values, results, pending,
                  canceled, verify_result, trace, history >>

\* CoreRuntime::Create; the host context owns one async value, its ready
\* chain, and one reference-counted object from here on.
CreateCoreRuntime ==
  /\ pc = "create_core_rt"
  /\ \E ok \in BOOLEAN :
       IF ok THEN /\ pc' = "load_libs"
                  /\ host' = "live"
                  /\ num_values' = num_values + 1
                  /\ num_rc' = num_rc + 1
                  /\ UNCHANGED << errs, exit_status, bef, guard >>
             ELSE /\ errs' = Append(errs, <<"core runtime error">>)
                  /\ Return(1, bef)
  /\ UNCHANGED << config, lib_idx, program, function_list, idx,
                  before_num_values, after_num_values, results, pending,
                  canceled, out, verify_result, trace, history >>

\* Variant: a library that fails to load is passed over.
LoadLibrary_M ==
  /\ pc = "load_libs"
  /\ lib_idx < MaxLibs
  /\ \E ok \in BOOLEAN :
       /\ lib_idx' = lib_idx + 1
       /\ errs' = IF ok THEN errs
                  ELSE Append(errs, <<"couldn't load library">>)
  /\ UNCHANGED << config, pc, exit_status, scope, program, function_list,
                  idx, before_num_values, after_num_values, results, pending,
                  canceled, out, verify_result, trace, history >>

\* One iteration of the loop over run_config.shared_libs.
LoadLibrary ==
  /\ pc = "load_libs"
  /\ lib_idx < MaxLibs
  /\ \E ok \in BOOLEAN :
       IF ok THEN /\ lib_idx' = lib_idx + 1
                  /\ UNCHANGED << pc, errs, exit_status, scope >>
             ELSE /\ errs' = Append(errs, <<"couldn't load library">>)
                  /\ Return(1, bef)
                  /\ UNCHANGED lib_idx
  /\ UNCHANGED << config, program, function_list, idx,
                  before_num_values, after_num_values, results, pending,
                  canceled, out, verify_result, trace, history >>

\* BEFFile::Open succeeds on the file's program.
OpenBef ==
  /\ pc = "load_libs"
  /\ \E p \in Programs :
       /\ program' = p
       /\ bef' = "open"
  /\ lib_idx' = 0
  /\ pc' = "select"
  /\ UNCHANGED << config, host, guard, function_list, idx,
                  before_num_values, after_num_values, results, engine, out,
                  errs, exit_status, verify_result, trace, history >>

\* Variant: a parse failure is treated like a configuration error.
OpenBefFails_M ==
  /\ pc = "load_libs"
  /\ lib_idx' = 0
  /\ Return(1, "null")
  /\ UNCHANGED << config, program, function_list, idx, before_num_values,
                  after_num_values, results, pending, canceled, out, errs,
                  verify_result, trace, history >>

\* BEFFile::Open returns null: straight to the diagnostic verifier.
OpenBefFails ==
  /\ pc = "load_libs"
  /\ lib_idx' = 0
  /\ \E matched \in BOOLEAN : Verify(matched, "null")
  /\ UNCHANGED << config, program, function_list, idx, before_num_values,
                  after_num_values, results, pending, canceled, out, errs,
                  history >>

\* The resolution loop: the functions pushed until a name is not found.
RECURSIVE Resolved(_)
Resolved(names) ==
  IF names = <<>> THEN <<>>
  ELSE IF GetFunction(Head(names)) = 0 THEN <<>>
  ELSE <<GetFunction(Head(names))>> \o Resolved(Tail(names))

AllFound(names) == \A i \in 1..Len(names) : GetFunction(names[i]) # 0

\* No function requested: run every function of the file.
SelectAll ==
  /\ pc = "select"
  /\ functions = <<>>
  /\ function_list' = GetFunctionList
  /\ pc' = "loop"
  /\ UNCHANGED << config, host, guard, lib_idx, bef, program, idx, before_num_values,
                  after_num_values, results, engine, out, errs, exit_status,
                  verify_result, trace, history >>

\* Every requested name resolves.
SelectNamed ==
  /\ pc = "select"
  /\ functions # <<>>
  /\ AllFound(functions)
  /\ function_list' = Resolved(functions)
  /\ pc' = "loop"
  /\ UNCHANGED << config, host, guard, lib_idx, bef, program, idx, before_num_values,
                  after_num_values, results, engine, out, errs, exit_status,
                  verify_result, trace, history >>

\* Variant: an unresolved name ends the resolution loop, not the run.
SelectNotFound_M ==
  /\ pc = "select"
  /\ functions # <<>>
  /\ ~AllFound(functions)
  /\ errs' = Append(errs, <<"couldn't find function">>)
  /\ function_list' = Resolved(functions)
  /\ pc' = "loop"
  /\ UNCHANGED << config, host, guard, lib_idx, bef, program, idx, before_num_values,
                  after_num_values, results, engine, out, exit_status,
                  verify_result, trace, history >>

\* The first requested name the program lacks ends the run.
SelectNotFound ==
  /\ pc = "select"
  /\ functions # <<>>
  /\ ~AllFound(functions)
  /\ errs' = Append(errs, <<"couldn't find function">>)
  /\ function_list' = Resolved(functions)
  /\ Return(1, bef)
  /\ UNCHANGED << config, lib_idx, program, idx, before_num_values,
                  after_num_values, results, pending, canceled, out,
                  verify_result, trace, history >>

\* The for loop is over: bef.reset().
ReleaseProgram ==
  /\ pc = "loop"
  /\ idx > Len(function_list)
  /\ bef' = "released"
  /\ trace' = Append(trace, <<"ProgramRelease", 0>>)
  /\ pc' = "verify"
  /\ UNCHANGED << config, host, guard, lib_idx, program, function_list, idx,
                  before_num_values, after_num_values, results, engine, out,
                  errs, exit_status, verify_result, history >>

\* Variant: the verifier's verdict is dropped.
VerifyDiagnostics_M ==
  /\ pc = "verify"
  /\ \E matched \in BOOLEAN :
       /\ verify_result' = matched
       /\ trace' = Append(trace, <<"Verify", 0>>)
       /\ Return(0, bef)
  /\ UNCHANGED << config, lib_idx, program, function_list, idx,
                  before_num_values, after_num_values, results, pending,
                  canceled, out, errs, history >>

\* return mlir::failed(source_mgr_handler.verify())
VerifyDiagnostics ==
  /\ pc = "verify"
  /\ \E matched \in BOOLEAN : Verify(matched, bef)
  /\ UNCHANGED << config, lib_idx, program, function_list, idx,
                  before_num_values, after_num_values, results, pending,
                  canceled, out, errs, history >>

\* Variant: the test looks at the result types.
TakesArguments_M(fn) == fn.result_types # <<>>

\* !fn->argument_types().empty()
TakesArguments(fn) == fn.argument_types # <<>>

\* Variant: the name is not looked at.
IsAnonymous_M(fn) == FALSE

\* fn->name().empty()
IsAnonymous(fn) == fn.name = ""

\* A function that takes arguments is not run.
SkipArguments ==
  /\ pc = "loop"
  /\ idx <= Len(function_list)
  /\ TakesArguments(CurrentFn)
  /\ out' = Append(out, <<"--- Not running '", CurrentFn.name,
                          "' because it has arguments.">>)
  /\ idx' = idx + 1
  /\ UNCHANGED << config, host, guard, pc, lib_idx, bef, program, function_list,
                  before_num_values, after_num_values, results, engine, errs,
                  exit_status, verify_result, trace, history >>

\* Variant: the loop does not move on past an anonymous function.
SkipAnonymous_M ==
  /\ pc = "loop"
  /\ idx <= Len(function_list)
  /\ ~TakesArguments(CurrentFn)
  /\ IsAnonymous(CurrentFn)
  /\ UNCHANGED vars

\* An anonymous function is not run.
SkipAnonymous ==
  /\ pc = "loop"
  /\ idx <= Len(function_list)
  /\ ~TakesArguments(CurrentFn)
  /\ IsAnonymous(CurrentFn)
  /\ idx' = idx + 1
  /\ UNCHANGED << config, host, guard, pc, lib_idx, bef, program, function_list,
                  before_num_values, after_num_values, results, engine, out,
                  errs, exit_status, verify_result, trace, history >>

\* Variant: the test of the tracking flag is inverted.
CaptureBaseline_Inv ==
  /\ pc = "loop"
  /\ idx <= Len(function_list)
  /\ ~TakesArguments(CurrentFn)
  /\ ~IsAnonymous(CurrentFn)
  /\ before_num_values' = IF ~tracking THEN num_values ELSE Uninit
  /\ out' = Append(out, <<"--- Running '", CurrentFn.name, "':">>)
  /\ Step("Baseline")
  /\ pc' = "execute"
  /\ UNCHANGED << config, host, guard, lib_idx, bef, program, function_list, idx,
                  after_num_values, results, engine, errs, exit_status,
                  verify_result, history >>

\* Variant: the baseline is read from the reference-counted object counter.
CaptureBaseline_M ==
  /\ pc = "loop"
  /\ idx <= Len(function_list)
  /\ ~TakesArguments(CurrentFn)
  /\ ~IsAnonymous(CurrentFn)
  /\ before_num_values' = IF tracking THEN num_rc ELSE Uninit
  /\ out' = Append(out, <<"--- Running '", CurrentFn.name, "':">>)
  /\ Step("Baseline")
  /\ pc' = "execute"
  /\ UNCHANGED << config, host, guard, lib_idx, bef, program, function_list, idx,
                  after_num_values, results, engine, errs, exit_status,
                  verify_result, history >>

\* size_t before_num_values, sampled when tracking is enabled.
CaptureBaseline ==
  /\ pc = "loop"
  /\ idx <= Len(function_list)
  /\ ~TakesArguments(CurrentFn)
  /\ ~IsAnonymous(CurrentFn)
  /\ before_num_values' = IF tracking THEN num_values ELSE Uninit
  /\ out' = Append(out, <<"--- Running '", CurrentFn.name, "':">>)
  /\ Step("Baseline")
  /\ pc' = "execute"
  /\ UNCHANGED << config, host, guard, lib_idx, bef, program, function_list, idx,
                  after_num_values, results, engine, errs, exit_status,
                  verify_result, history >>

\* results.resize(n); fn->Execute({}, results, host)
Dispatch ==
  /\ pc = "execute"
  /\ Execute(CurrentFn)
  /\ samples' = Append(samples, [pos |-> idx, before |-> num_values,
                                 after |-> Uninit, rc_before |-> num_rc,
                                 rc_after |-> Uninit])
  /\ Step("Dispatch")
  /\ pc' = "await"
  /\ UNCHANGED << config, host, guard, lib_idx, bef, program, function_list, idx,
                  before_num_values, after_num_values, canceled, num_rc, out,
                  errs,
                  exit_status, verify_result, read_unresolved, restart_cleared >>

\* Variant: the wait gives up once the host has no work outstanding.
Await_Idle ==
  /\ pc = "await"
  /\ (AwaitReturns(results) \/ pending = 0)
  /\ Step("Await")
  /\ pc' = "report"
  /\ UNCHANGED << config, host, guard, lib_idx, bef, program, function_list, idx,
                  before_num_values, after_num_values, results, engine, out,
                  errs, exit_status, verify_result, history >>

\* Variant: the driver does not wait for the results.
Await_M ==
  /\ pc = "await"
  /\ Step("Await")
  /\ pc' = "report"
  /\ UNCHANGED << config, host, guard, lib_idx, bef, program, function_list, idx,
                  before_num_values, after_num_values, results, engine, out,
                  errs, exit_status, verify_result, history >>

\* host->Await(results)
Await ==
  /\ pc = "await"
  /\ AwaitReturns(results)
  /\ Step("Await")
  /\ pc' = "report"
  /\ UNCHANGED << config, host, guard, lib_idx, bef, program, function_list, idx,
                  before_num_values, after_num_values, results, engine, out,
                  errs, exit_status, verify_result, history >>

\* Variant: the declared type is tested before the error.
RenderTexts_M(type, slot) ==
  IF type \in {"i1", "i32", "i64", "f32", "f64"}
    THEN IF slot.state = "value" THEN { <<slot.text>> }
         ELSE IF slot.state = "error"
           THEN { <<"<<error: ", slot.text, ">>">> }
         ELSE { <<g>> : g \in {"0", "garbage"} }
  ELSE { <<type, " value">> }

\* What the driver prints for result i of declared type `type`.  Reading
\* the payload of a slot that is not resolved yet yields an arbitrary value.
RenderTexts(type, slot) ==
  IF slot.state = "error" THEN { <<"<<error: ", slot.text, ">>">> }
  ELSE IF type \in {"i1", "i32", "i64", "f32", "f64"}
    THEN IF slot.state = "value" THEN { <<slot.text>> }
         ELSE { <<g>> : g \in {"0", "garbage"} }
  ELSE { <<type, " value">> }

\* The results rendered in order, a comma after each but the last.
RECURSIVE JoinResults(_, _)
JoinResults(texts, i) ==
  IF i > Len(texts) THEN <<>>
  ELSE texts[i] \o (IF i # Len(texts) THEN <<",">> ELSE <<>>)
       \o JoinResults(texts, i + 1)

\* Variant: a result that is an error ends the loop.
Report_M ==
  /\ pc = "report"
  /\ IF results # <<>>
       THEN /\ \E texts \in [1..Len(results) ->
                   UNION { RenderTexts(CurrentFn.result_types[i], results[i]) :
                             i \in 1..Len(results) }] :
                 /\ \A i \in 1..Len(results) :
                      texts[i] \in RenderTexts(CurrentFn.result_types[i],
                                               results[i])
                 /\ out' = Append(out, <<"'", CurrentFn.name, "' returned ">>
                                       \o JoinResults(texts, 1) \o <<"\n">>)
            /\ read_unresolved' =
                 (read_unresolved \/
                    \E i \in 1..Len(results) : ~IsResolved(results[i]))
       ELSE UNCHANGED << out, read_unresolved >>
  /\ Step("Report")
  /\ pc' = IF \E i \in 1..Len(results) : results[i].state = "error"
             THEN "verify" ELSE "quiesce"
  /\ UNCHANGED << config, host, guard, lib_idx, bef, program, function_list, idx,
                  before_num_values, after_num_values, results, engine, errs,
                  exit_status, verify_result, samples, short_circuited,
                  restart_cleared >>

\* The result line, printed when the function has results.
Report ==
  /\ pc = "report"
  /\ IF results # <<>>
       THEN /\ \E texts \in [1..Len(results) ->
                   UNION { RenderTexts(CurrentFn.result_types[i], results[i]) :
                             i \in 1..Len(results) }] :
                 /\ \A i \in 1..Len(results) :
                      texts[i] \in RenderTexts(CurrentFn.result_types[i],
                                               results[i])
                 /\ out' = Append(out, <<"'", CurrentFn.name, "' returned ">>
                                       \o JoinResults(texts, 1) \o <<"\n">>)
            /\ read_unresolved' =
                 (read_unresolved \/
                    \E i \in 1..Len(results) : ~IsResolved(results[i]))
       ELSE UNCHANGED << out, read_unresolved >>
  /\ Step("Report")
  /\ pc' = "quiesce"
  /\ UNCHANGED << config, host, guard, lib_idx, bef, program, function_list, idx,
                  before_num_values, after_num_values, results, engine, errs,
                  exit_status, verify_result, samples, short_circuited,
                  restart_cleared >>

\* Variant: the driver does not wait for the host to drain.
Quiesce_M ==
  /\ pc = "quiesce"
  /\ Step("Drain")
  /\ pc' = "restart"
  /\ UNCHANGED << config, host, guard, lib_idx, bef, program, function_list, idx,
                  before_num_values, after_num_values, results, engine, out,
                  errs, exit_status, verify_result, history >>

\* host->Quiesce()
Quiesce ==
  /\ pc = "quiesce"
  /\ QuiesceReturns
  /\ Step("Drain")
  /\ pc' = "restart"
  /\ UNCHANGED << config, host, guard, lib_idx, bef, program, function_list, idx,
                  before_num_values, after_num_values, results, engine, out,
                  errs, exit_status, verify_result, history >>

\* Variant: the host is not restarted.
RestartHost_M ==
  /\ pc = "restart"
  /\ Step("Reset")
  /\ pc' = "release"
  /\ UNCHANGED << config, host, guard, lib_idx, bef, program, function_list, idx,
                  before_num_values, after_num_values, results, engine, out,
                  errs, exit_status, verify_result, history >>

\* host->Restart()
RestartHost ==
  /\ pc = "restart"
  /\ Restart
  /\ restart_cleared' = (restart_cleared \/ canceled)
  /\ Step("Reset")
  /\ pc' = "release"
  /\ UNCHANGED << config, host, guard, lib_idx, bef, program, function_list, idx,
                  before_num_values, after_num_values, results, pending,
                  num_values, num_rc, out, errs, exit_status, verify_result,
                  samples, short_circuited, read_unresolved >>

\* Variant: results.clear() is left out, the driver keeps its slots.
Release_Keep ==
  /\ pc = "release"
  /\ samples' = [samples EXCEPT ![Len(samples)].after = num_values,
                                 ![Len(samples)].rc_after = num_rc]
  /\ Step("Release")
  /\ pc' = "leak_check"
  /\ UNCHANGED << config, host, guard, lib_idx, bef, program, function_list, idx,
                  before_num_values, after_num_values, results, engine,
                  out, errs, exit_status, verify_result, short_circuited,
                  read_unresolved, restart_cleared >>

\* Variant: the result slots are dropped before the host is drained.
Release_M ==
  /\ pc = "quiesce"
  /\ results' = <<>>
  /\ num_values' = num_values - Len(results)
  /\ samples' = [samples EXCEPT ![Len(samples)].after =
                                    num_values - Len(results),
                                 ![Len(samples)].rc_after = num_rc]
  /\ Step("Release")
  /\ pc' = "leak_check"
  /\ UNCHANGED << config, host, guard, lib_idx, bef, program, function_list, idx,
                  before_num_values, after_num_values, pending, canceled,
                  num_rc,
                  out, errs, exit_status, verify_result, short_circuited,
                  read_unresolved, restart_cleared >>

\* results.clear(): the driver's references to the slots are dropped.
Release ==
  /\ pc = "release"
  /\ results' = <<>>
  /\ num_values' = num_values - Len(results)
  /\ samples' = [samples EXCEPT ![Len(samples)].after =
                                    num_values - Len(results),
                                 ![Len(samples)].rc_after = num_rc]
  /\ Step("Release")
  /\ pc' = "leak_check"
  /\ UNCHANGED << config, host, guard, lib_idx, bef, program, function_list, idx,
                  before_num_values, after_num_values, pending, canceled,
                  num_rc,
                  out, errs, exit_status, verify_result, short_circuited,
                  read_unresolved, restart_cleared >>

\* Variant: the two samples are not compared.
LeakCheckPasses_M ==
  /\ pc = "leak_check"
  /\ after_num_values' = IF tracking THEN num_values ELSE after_num_values
  /\ Step("LeakCheck")
  /\ idx' = idx + 1
  /\ pc' = "loop"
  /\ UNCHANGED << config, host, guard, lib_idx, bef, program, function_list,
                  before_num_values, results, engine, out, errs, exit_status,
                  verify_result, history >>

\* Tracking off, or the two samples agree: on to the next function.
LeakCheckPasses ==
  /\ pc = "leak_check"
  /\ tracking => before_num_values = num_values
  /\ after_num_values' = IF tracking THEN num_values ELSE after_num_values
  /\ Step("LeakCheck")
  /\ idx' = idx + 1
  /\ pc' = "loop"
  /\ UNCHANGED << config, host, guard, lib_idx, bef, program, function_list,
                  before_num_values, results, engine, out, errs, exit_status,
                  verify_result, history >>

\* Variant: the leak is reported and the loop goes on.
LeakCheckAborts_M ==
  /\ pc = "leak_check"
  /\ tracking
  /\ before_num_values # num_values
  /\ after_num_values' = num_values
  /\ errs' = Append(errs, <<"Evaluation of function '", CurrentFn.name,
                            "' leaked async values">>)
  /\ Step("LeakCheck")
  /\ idx' = idx + 1
  /\ pc' = "loop"
  /\ UNCHANGED << config, host, guard, lib_idx, bef, program, function_list,
                  before_num_values, results, engine, out, exit_status,
                  verify_result, history >>

\* The two samples differ: abort().
LeakCheckAborts ==
  /\ pc = "leak_check"
  /\ tracking
  /\ before_num_values # num_values
  /\ after_num_values' = num_values
  /\ errs' = Append(errs, <<"Evaluation of function '", CurrentFn.name,
                            "' leaked async values">>)
  /\ Step("LeakCheck")
  /\ pc' = "aborted"
  /\ exit_status' = "abort"
  /\ UNCHANGED << config, host, guard, lib_idx, bef, program, function_list, idx,
                  before_num_values, results, engine, out, verify_result,
                  history >>

Next ==
  \/ OpenInputFile
  \/ CreateHostAllocator
  \/ CreateWorkQueue
  \/ CreateCoreRuntime
  \/ LoadLibrary
  \/ OpenBef
  \/ OpenBefFails
  \/ SelectAll
  \/ SelectNamed
  \/ SelectNotFound
  \/ SkipArguments
  \/ SkipAnonymous
  \/ CaptureBaseline
  \/ Dispatch
  \/ Await
  \/ Report
  \/ Quiesce
  \/ RestartHost
  \/ Release
  \/ LeakCheckPasses
  \/ LeakCheckAborts
  \/ ReleaseProgram
  \/ VerifyDiagnostics
  \/ \E i \in 1..Len(results) : ResolveSlot(i)
  \/ SideWork

\* ------------------------------------------------------------ properties
EventCount(name) == Cardinality({ k \in 1..Len(trace) : trace[k][1] = name })

\* Number of times the function at index f of the program was dispatched.
DispatchCount(f) ==
  Cardinality({ k \in 1..Len(trace) :
                  /\ trace[k][1] = "Dispatch"
                  /\ function_list[trace[k][2]] = f })

FnSteps == << "Dispatch", "Await", "Report", "Drain", "Reset", "Release",
              "LeakCheck" >>

\* The steps of FnSteps taken so far for the entry at list position pos.
StepsOf(pos) ==
  LET sel == SelectSeq(trace, LAMBDA e : e[2] = pos /\ e[1] # "Baseline")
  IN [i \in 1..Len(sel) |-> sel[i][1]]

IsPrefix(s, t) ==
  /\ Len(s) <= Len(t)
  /\ \A i \in 1..Len(s) : s[i] = t[i]

IsSkipped(fn) == fn.argument_types # <<>> \/ fn.name = ""

ProgramLoaded == bef \in {"open", "released"}

SomeNameAbsent ==
  \E i \in 1..Len(functions) :
    \A j \in 1..Len(program) : program[j].name # functions[i]

\* C1: a function that declares at least one argument is never dispatched,
\* whatever its name and its position in the function list.
C1_ArgumentsNeverDispatched ==
  \A f \in 1..Len(program) :
    program[f].argument_types # <<>> => DispatchCount(f) = 0

C1_Witness ==
  /\ pc = "done"
  /\ EventCount("Dispatch") > 0
  /\ \E k \in 1..Len(function_list) :
       /\ k > 1
       /\ program[function_list[k]].argument_types # <<>>
       /\ program[function_list[k]].name # ""

\* C2: when some requested name is absent from the program, the run ends
\* with a non-zero exit status and nothing is ever dispatched, not even the
\* functions resolved before the absent name.
C2_AbsentNameRunsNothing ==
  (ProgramLoaded /\ functions # <<>> /\ SomeNameAbsent)
    => /\ EventCount("Dispatch") = 0
       /\ pc \in {"select", "done"}
       /\ pc = "done" => exit_status = 1

C2_Witness ==
  /\ pc = "done"
  /\ exit_status = 1
  /\ ProgramLoaded
  /\ Len(functions) = 2
  /\ function_list # <<>>
  /\ ~IsSkipped(program[function_list[1]])

\* C3: with tracking enabled, a live count after Release that differs from
\* the count before Dispatch aborts the process at that function: the only
\* step is to the aborted state, from which nothing more happens, so no
\* later function is dispatched and the verifier is never invoked.
C3_LeakAborts ==
  [][ /\ pc # "aborted"
      /\ (pc = "leak_check" /\ tracking /\ num_values # before_num_values)
           => /\ pc' = "aborted"
              /\ exit_status' = "abort"
              /\ EventCount("Verify") = 0
              /\ idx' = idx ]_vars

C3_Witness ==
  /\ pc = "aborted"
  /\ guard = "armed"
  /\ trace # <<>>
  /\ trace[Len(trace)][1] = "LeakCheck"
  /\ after_num_values < before_num_values
  /\ \E k \in (idx + 1)..Len(function_list) :
       ~IsSkipped(program[function_list[k]])

\* C4 as stated: in a run that reaches verification after the loop, every
\* dispatched function has equal counts before Dispatch and after Release.
C4_Original ==
  (bef = "released" /\ EventCount("Verify") > 0)
    => \A i \in 1..Len(samples) : samples[i].after = samples[i].before

\* C4 amended: with allocation tracking enabled, in a run that reaches
\* verification after the loop, every dispatched function has equal counts
\* before Dispatch and after Release.
C4_TrackedCountsBalance ==
  (tracking /\ bef = "released" /\ EventCount("Verify") > 0)
    => \A i \in 1..Len(samples) : samples[i].after = samples[i].before

C4_Witness ==
  /\ tracking
  /\ pc = "done"
  /\ bef = "released"
  /\ Len(samples) >= 2

\* C5: a Restart lies between any two Dispatches, the host is never
\* canceled at a Dispatch, and no Execute is short-circuited by a
\* cancellation left behind by an earlier function.
C5_RestartBeforeNextDispatch ==
  /\ pc = "execute" => ~canceled
  /\ ~short_circuited
  /\ \A i, j \in 1..Len(trace) :
       (i < j /\ trace[i][1] = "Dispatch" /\ trace[j][1] = "Dispatch")
         => \E k \in (i + 1)..(j - 1) : trace[k][1] = "Reset"

C5_Witness ==
  /\ restart_cleared
  /\ pc = "done"
  /\ EventCount("Dispatch") >= 2
  /\ StepsOf(Len(function_list)) = FnSteps

\* C6: every entry of the function list that is not skipped takes the steps
\* Dispatch, Await, Report, Drain, Reset, Release, Leak check in this order,
\* each once and none left out; a skipped entry takes none.
C6_StepOrder ==
  \A k \in 1..Len(function_list) :
    LET fn == program[function_list[k]]
        steps == StepsOf(k)
    IN /\ IsPrefix(steps, FnSteps)
       /\ IsSkipped(fn) => steps = <<>>
       /\ k > idx => steps = <<>>
       /\ (~IsSkipped(fn) /\ (k < idx \/ (k = idx /\ pc = "aborted")))
            => steps = FnSteps

C6_Witness ==
  /\ pc = "done"
  /\ \E j, k \in 1..Len(function_list) :
       /\ IsSkipped(program[function_list[j]])
       /\ StepsOf(j) = <<>>
       /\ ~IsSkipped(program[function_list[k]])
       /\ StepsOf(k) = FnSteps

\* C7: when a function is dispatched the host has no outstanding work of an
\* earlier function, reachable from result slots or not, and the driver
\* holds no result slots.
C7_NoTwoInFlight ==
  pc \in {"loop", "execute"} => (pending = 0 /\ results = <<>>)

C7_Witness ==
  /\ pc = "execute"
  /\ idx >= 2
  /\ EventCount("Dispatch") >= 1

\* C8: result slots are read only after Await returned for the whole list,
\* so every slot the driver reads is resolved.
C8_ReadOnlyResolved ==
  /\ ~read_unresolved
  /\ pc = "report" => \A i \in 1..Len(results) : IsResolved(results[i])

C8_Witness ==
  /\ pc = "quiesce"
  /\ Len(results) = 2
  /\ results[1].state = "value"
  /\ results[2].state = "error"

\* C9: when the program fails to load no function is selected or
\* dispatched, the verifier runs exactly once, and the exit status is 0
\* exactly when the verifier reports a match.
C9_ParseFailureVerifies ==
  bef = "null"
    => /\ function_list = <<>>
       /\ EventCount("Dispatch") = 0
       /\ EventCount("Verify") = 1
       /\ pc = "done"
       /\ exit_status = 0 <=> verify_result = TRUE

C9_Witness ==
  /\ bef = "null"
  /\ pc = "done"
  /\ exit_status = 0

\* C10: in a run that loads the program, resolves every name and has no
\* fatal leak (neither at a leak check nor at the guard's asserts on the
\* way out), the verifier runs exactly once, after every selected entry
\* has finished and after the program was released, and the exit status is
\* 0 exactly when the verifier reports a match.
C10_VerifyOnceAtEnd ==
  /\ (ProgramLoaded /\ EventCount("Verify") > 0 /\ pc # "aborted")
       => /\ EventCount("Verify") = 1
          /\ pc = "done"
          /\ bef = "released"
          /\ Len(trace) >= 2
          /\ trace[Len(trace)][1] = "Verify"
          /\ trace[Len(trace) - 1][1] = "ProgramRelease"
          /\ idx = Len(function_list) + 1
          /\ \A k \in 1..Len(function_list) :
               StepsOf(k) \in {<<>>, FnSteps}
          /\ exit_status = 0 <=> verify_result = TRUE
  /\ (ProgramLoaded /\ pc = "done" /\ ~(functions # <<>> /\ SomeNameAbsent))
       => EventCount("Verify") = 1

C10_Witness ==
  /\ pc = "done"
  /\ bef = "released"
  /\ exit_status = 0
  /\ \E k \in 1..Len(function_list) : IsSkipped(program[function_list[k]])
  /\ \E i \in 1..Len(out) : \E j \in 1..Len(out[i]) : out[i][j] = "<<error: "

ConfigErrors == { <<"cannot open input file">>,
                  <<"couldn't create work queue type">>,
                  <<"core runtime error">>,
                  <<"couldn't load library">> }

\* C11: when the input file cannot be opened, the work queue or the engine
\* cannot be created, or a shared library cannot be loaded, the run returns
\* a non-zero status at once: the program is never parsed, nothing is
\* selected or dispatched and the verifier is not invoked.
C11_ConfigErrorsReturnAtOnce ==
  (\E i \in 1..Len(errs) : errs[i] \in ConfigErrors)
    => /\ pc = "done"
       /\ exit_status = 1
       /\ Len(errs) = 1
       /\ bef = "unset"
       /\ program = <<>>
       /\ function_list = <<>>
       /\ trace = <<>>
       /\ verify_result = "none"

C11_Witness ==
  /\ pc = "done"
  /\ errs = << <<"couldn't load library">> >>
  /\ host = "destroyed"
  /\ exit_status = 1

IsErrorLine(line) == \E j \in 1..Len(line) : line[j] = "<<error: "

HasErrorLine == \E i \in 1..Len(out) : IsErrorLine(out[i])

\* The loop has been through every entry of the list: each was skipped or
\* took all its steps.
AllEntriesProcessed ==
  \A k \in 1..Len(function_list) :
    /\ k < idx \/ (k = idx /\ StepsOf(k) = FnSteps)
    /\ StepsOf(k) = IF IsSkipped(program[function_list[k]]) THEN <<>>
                     ELSE FnSteps

\* C12 as stated: a run in which a result resolved to an error does not
\* stop; when it ends every entry of the list has been processed.
C12_Original ==
  (HasErrorLine /\ pc \in {"done", "aborted"}) => AllEntriesProcessed

\* C12 amended: a result that resolves to an error does not stop the run;
\* the function still takes Drain, Reset, Release and Leak check, and every
\* later entry is processed unless a leak check aborts the process.
C12_ErrorsNotFatal ==
  /\ (HasErrorLine /\ pc \in {"done", "aborted"})
       => \/ AllEntriesProcessed
          \/ /\ pc = "aborted"
             /\ tracking
             /\ trace[Len(trace)] = <<"LeakCheck", idx>>
             /\ after_num_values # before_num_values
             /\ StepsOf(idx) = FnSteps
  /\ (pc \in {"quiesce", "restart", "release", "leak_check"}
        /\ results # <<>> /\ results[1].state = "error")
       => exit_status = "none"

C12_Witness ==
  /\ pc = "done"
  /\ \E i, j \in 1..Len(out) :
       /\ i < j
       /\ IsErrorLine(out[i])
       /\ out[j][1] = "--- Running '"

\* The lines of tfrt::outs() that name the function `name`.
LinesNaming(name) ==
  { i \in 1..Len(out) : Len(out[i]) >= 2 /\ out[i][2] = name }

AnonymousUntouched ==
  \A k \in 1..Len(function_list) :
    program[function_list[k]].name = ""
      => /\ StepsOf(k) = <<>>
         /\ \A i \in 1..Len(trace) : trace[i] # <<"Baseline", k>>

\* C13 as stated: an entry with an empty name is never dispatched, nothing
\* is printed about it and no baseline or leak check is made for it,
\* whether or not it declares arguments.
C13_Original ==
  /\ AnonymousUntouched
  /\ LinesNaming("") = {}

\* C13 amended: an entry with an empty name is never dispatched and gets no
\* baseline capture or leak check; nothing is printed about it when it
\* declares no argument, and the "not running" notice is printed when it
\* declares arguments.
C13_AnonymousSkipped ==
  /\ AnonymousUntouched
  /\ \A i \in LinesNaming("") : out[i][1] = "--- Not running '"
  /\ Cardinality(LinesNaming("")) =
       Cardinality({ k \in 1..Len(function_list) :
                       /\ k < idx
                       /\ program[function_list[k]].name = ""
                       /\ program[function_list[k]].argument_types # <<>> })

C13_Witness ==
  /\ pc = "done"
  /\ \E j, k \in 1..Len(function_list) :
       /\ program[function_list[j]].name = ""
       /\ program[function_list[j]].argument_types = <<>>
       /\ program[function_list[k]].name = ""
       /\ program[function_list[k]].argument_types # <<>>
  /\ Cardinality(LinesNaming("")) = 1

\* The text the result line must carry for result i of the current call.
ExpectedResult(i) ==
  LET slot == results[i]
      type == CurrentFn.result_types[i]
  IN IF slot.state = "error" THEN <<"<<error: ", slot.text, ">>">>
     ELSE IF type \in {"i1", "i32", "i64", "f32", "f64"} THEN <<slot.text>>
     ELSE <<type, " value">>

RECURSIVE ExpectedFrom(_)
ExpectedFrom(i) ==
  IF i > Len(results) THEN <<>>
  ELSE (IF i > 1 THEN <<",">> ELSE <<>>) \o ExpectedResult(i)
       \o ExpectedFrom(i + 1)

\* C14: for a dispatched function with n >= 1 results the result line is
\* the quoted name, ' returned ', then the n results in declared order
\* separated by n-1 commas and no trailing comma; an error is rendered as
\* <<error: MESSAGE>> whatever the declared type, a value of type i1, i32,
\* i64, f32 or f64 as its text, any other type as its name and ' value'.
C14_ResultLine ==
  (pc = "quiesce" /\ results # <<>>)
    => LET line == out[Len(out)]
       IN /\ line = <<"'", CurrentFn.name, "' returned ">>
                      \o ExpectedFrom(1) \o <<"\n">>
          /\ Cardinality({ j \in 1..Len(line) : line[j] = "," })
               = Len(results) - 1
          /\ line[Len(line) - 1] # ","

C14_Witness ==
  /\ pc = "quiesce"
  /\ CurrentFn.result_types = <<"f64", "tensor">>
  /\ results[1].state = "value"
  /\ results[2].state = "error"
  /\ out[Len(out)] = <<"'", "a", "' returned ", "2.5", ",", "<<error: ",
                       "div by zero", ">>", "\n">>

\* C15: both live-object counters are zero before the engine is created,
\* and every return taken after the guard was declared (normal completion,
\* parse failure, engine or library failure, function not found) passes
\* the guard's two asserts only with both counters at zero, evaluated
\* after the result slots, the program and the engine were released; a
\* non-zero counter at that point fails the assert instead of returning.
C15_CountersZeroAtBothEnds ==
  /\ pc = "create_core_rt"
       => (num_values = 0 /\ num_rc = 0 /\ guard = "armed" /\ host = "none")
  /\ host # "none" => guard # "unarmed"
  /\ (pc = "done" /\ guard # "unarmed")
       => /\ guard = "passed"
          /\ num_values = 0 /\ num_rc = 0
          /\ results = <<>> /\ bef # "open" /\ host # "live"
  /\ guard = "failed"
       => /\ pc = "aborted"
          /\ num_values # 0 \/ num_rc # 0
          /\ results = <<>> /\ bef # "open" /\ host # "live"
  /\ guard = "passed" => pc = "done"

C15_Witness ==
  /\ pc = "done"
  /\ guard = "passed"
  /\ host = "destroyed"
  /\ bef = "released"
  /\ EventCount("Dispatch") >= 1
  /\ num_values = 0 /\ num_rc = 0

\* The last n events of the trace.
LastEvents(n) ==
  IF Len(trace) < n THEN <<>> ELSE SubSeq(trace, Len(trace) - n + 1, Len(trace))

\* No engine thread has a step to take.
EngineIdle ==
  /\ pending = 0
  /\ ~ENABLED SideWork
  /\ ~ENABLED (\E i \in 1..(MaxResults + 1) : ResolveSlot(i))

\* C16: both leak-accounting samples are taken at quiescent points. Where
\* `before` is sampled (between the top of an iteration and Execute) the
\* engine has no work outstanding and the driver holds no result slot;
\* where `after` is sampled (the leak check) Quiesce and Restart have
\* returned and the slots of the run were dropped, in that order; at both
\* points no engine thread can move the counter, so a tracked baseline
\* still equals the counter when Execute is called.
C16_SamplesAtQuiescentPoints ==
  /\ pc \in {"loop", "execute"} => (EngineIdle /\ results = <<>>)
  /\ (pc = "execute" /\ tracking) => before_num_values = num_values
  /\ pc = "leak_check"
       => /\ EngineIdle
          /\ results = <<>>
          /\ LastEvents(3) = << <<"Drain", idx>>, <<"Reset", idx>>,
                                <<"Release", idx>> >>
          /\ samples[Len(samples)].pos = idx
          /\ samples[Len(samples)].after = num_values

C16_Witness ==
  /\ pc = "leak_check"
  /\ tracking
  /\ Len(samples) = 2
  /\ CurrentFn.result_types # <<>>
  /\ samples[1].before = samples[1].after
  /\ samples[2].after = num_values
  /\ pending = 0

\* The positions in errs of the lines that attribute a leak to a function.
LeakLines == { j \in 1..Len(errs) : errs[j][1] = "Evaluation of function '" }

\* C17 as first stated: for each completed run both counters were sampled
\* before and after, and an excess in either one was attributed to the run,
\* so a run whose leak check passed with tracking on left both unchanged.
C17_Original ==
  \A k \in 1..Len(samples) :
    (tracking /\ samples[k].pos < idx)
      => /\ samples[k].before = samples[k].after
         /\ samples[k].rc_before = samples[k].rc_after

\* C17, amended: with tracking on, only the async value counter is read
\* before and after each run, and a difference is attributed to the
\* function of that run (message naming it, then abort). The
\* reference-counted object counter is not read per run: an excess in it
\* passes the leak check and only fails the assert on the way out, which
\* names no function.
C17_OnlyAsyncCountPerRun ==
  /\ \A k \in 1..Len(samples) :
       (tracking /\ samples[k].pos < idx)
         => samples[k].after - samples[k].before = 0
  /\ \A j \in LeakLines :
       /\ tracking
       /\ j = Len(errs)
       /\ pc = "aborted"
       /\ guard = "armed"
       /\ errs[j][2] = CurrentFn.name
       /\ samples[Len(samples)].pos = idx
       /\ samples[Len(samples)].after # samples[Len(samples)].before
  /\ (pc = "aborted" /\ tracking /\ guard = "armed" /\ host = "live")
       => LeakLines # {}
  /\ guard = "failed" => LeakLines = {}

C17_Witness ==
  /\ tracking
  /\ guard = "failed"
  /\ Len(samples) = 2
  /\ samples[1].rc_after > samples[1].rc_before
  /\ samples[1].after = samples[1].before
  /\ samples[2].after = samples[2].before
  /\ LeakLines = {}

\* Some result slot the driver holds is not resolved yet.
SomeSlotUnresolved == \E i \in 1..Len(results) : ~IsResolved(results[i])

\* C18: Await has no timeout. While a result slot of the dispatched
\* function is unresolved the driver cannot leave Await: no step prints
\* the function's results, drains or resets the host, moves to a later
\* function or verifies the diagnostics, so a slot that never resolves
\* keeps the driver in Await for ever.
C18_AwaitNeverTimesOut ==
  [][(pc = "await" /\ SomeSlotUnresolved)
       => /\ pc' = "await"
          /\ trace' = trace
          /\ out' = out
          /\ idx' = idx
          /\ verify_result' = verify_result
          /\ exit_status' = exit_status]_vars

C18_Witness ==
  /\ pc = "await"
  /\ SomeSlotUnresolved
  /\ pending = 0
  /\ idx = 1
  /\ Len(function_list) = 2
  /\ trace[Len(trace)] = <<"Dispatch", 1>>

\* The events of the function loop (the steps after it carry position 0).
LoopTrace == SelectSeq(trace, LAMBDA e : e[2] # 0)

\* The loop's events come in list order, each step at most once for an
\* entry, and none for an entry the loop has not reached.
InListOrder ==
  /\ \A i, j \in 1..Len(LoopTrace) :
       i < j => /\ LoopTrace[i][2] <= LoopTrace[j][2]
                /\ LoopTrace[i] # LoopTrace[j]
  /\ \A i \in 1..Len(LoopTrace) :
       /\ LoopTrace[i][2] \in 1..Len(function_list)
       /\ LoopTrace[i][2] <= idx

\* C19: when the engine resolves every slot it was given and every
\* Quiesce returns, the run ends, with an exit status or with an abort;
\* the loop index only moves forward one entry at a time, and no entry of
\* the selected list is taken up again once the loop has moved past it.
C19_TerminatesInOrder ==
  /\ <>(pc \in {"done", "aborted"})
  /\ [](pc = "done" => exit_status \in {0, 1})
  /\ [](pc = "aborted" => exit_status = "abort")
  /\ [][idx' \in {idx, idx + 1}]_vars
  /\ []InListOrder

C19_Witness ==
  /\ pc = "done"
  /\ exit_status = 0
  /\ Len(function_list) = 2
  /\ idx = 3
  /\ EventCount("Dispatch") = 2
  /\ LoopTrace[1] = <<"Baseline", 1>>
  /\ LoopTrace[Len(LoopTrace)] = <<"LeakCheck", 2>>

\* The position of the last baseline capture, 0 when there was none.
LastBaseline ==
  LET caps == { k \in 1..Len(trace) : trace[k][1] = "Baseline" }
  IN IF caps = {} THEN 0
     ELSE trace[CHOOSE k \in caps : \A m \in caps : m <= k][2]

\* C20: the leak check never compares against a baseline of another run.
\* From Execute to the leak check of an iteration, before_num_values holds
\* a value exactly when tracking is on, and then it is the counter as it
\* was when this iteration's function was dispatched; the last baseline
\* capture is the one of this iteration.  The tracking flag has one value
\* for the whole run, so the capture and the check agree on it.
C20_BaselineOfSameRun ==
  pc \in {"execute", "await", "report", "quiesce", "restart", "release",
          "leak_check"}
    => /\ LastBaseline = idx
       /\ tracking <=> before_num_values # Uninit
       /\ (tracking /\ pc # "execute")
            => /\ samples[Len(samples)].pos = idx
               /\ before_num_values = samples[Len(samples)].before

C20_Witness ==
  /\ pc = "leak_check"
  /\ tracking
  /\ idx = 2
  /\ Len(samples) = 2
  /\ LastBaseline = 2
  /\ before_num_values = samples[2].before
  /\ before_num_values # num_values

Spec == Init /\ [][Next]_vars

\* The function loop on a file that declares one runnable function with
\* results, entered as SelectAll leaves it.
InitPrint ==
  /\ functions = <<>>
  /\ tracking \in BOOLEAN
  /\ host_allocator_type \in AllocatorTypes
  /\ pc = "loop"
  /\ lib_idx = 0
  /\ bef = "open"
  /\ program \in { <<[name |-> FnNames[1], argument_types |-> <<>>,
                      result_types |-> r]>> : r \in PrintResultLists }
  /\ function_list = <<1>>
  /\ idx = 1
  /\ before_num_values = Uninit
  /\ after_num_values = Uninit
  /\ results = <<>>
  /\ pending = 0
  /\ canceled = FALSE
  /\ num_values = 1
  /\ num_rc = 1
  /\ host = "live"
  /\ guard = "armed"
  /\ out = << <<AllocatorLine(host_allocator_type)>>,
              <<"Choosing work queue.">> >>
  /\ errs = <<>>
  /\ exit_status = "none"
  /\ verify_result = "none"
  /\ trace = <<>>
  /\ samples = <<>>
  /\ short_circuited = FALSE
  /\ read_unresolved = FALSE
  /\ restart_cleared = FALSE

NextPrint ==
  \/ CaptureBaseline
  \/ Dispatch
  \/ Await
  \/ Report
  \/ Quiesce
  \/ RestartHost
  \/ Release
  \/ LeakCheckPasses
  \/ LeakCheckAborts
  \/ ReleaseProgram
  \/ VerifyDiagnostics
  \/ \E i \in 1..Len(results) : ResolveSlot(i)
  \/ SideWork

PrintSpec == InitPrint /\ [][NextPrint]_vars

\* The run under the scheduling the driver relies on: the driver thread
\* keeps running, the worker threads finish the work they were given and
\* resolve the slots they were given.  The outstanding work is finite, so
\* weak fairness of the whole step is enough for both.
\* It is taken from a clean start of the build that tracks allocations,
\* where the loop can end both ways, by a return and by the leak abort,
\* with the default allocator.
InitFair ==
  /\ Init
  /\ tracking
  /\ host_allocator_type = "kMalloc"
  /\ num_values = 0
  /\ num_rc = 0

FairSpec == InitFair /\ [][Next]_vars /\ WF_vars(Next)
====
